---- MODULE Spec2Model ----
(***************************************************************************)
(* Verification model of the ITK_Playground command line programs.         *)
(*                                                                         *)
(* Three state machines share this module:                                 *)
(*   SpecWedge - create_step_wedge() of create_step_wedge.cxx;             *)
(*   SpecMain  - the main() control flow of the fourteen programs;         *)
(*   SpecStat  - the frequency table of stat_demo.cpp.                     *)
(* Every specification keeps the variables of the other machines at their  *)
(* idle values.                                                            *)
(***************************************************************************)
EXTENDS Integers, Sequences, FiniteSets, TLC

VARIABLES
    \* ---- create_step_wedge() ----
    wpc,              \* position inside create_step_wedge
    od,               \* parameter od: densities in 1/100 OD, indexed 0..20
    dpi,              \* parameter dpi (uint16_t)
    NumRows,          \* local NumRows (uint16_t)
    NumCols,          \* local NumCols (uint16_t)
    image,            \* the RGB16 image: allocation, fill value, painted rectangles
    stepWedgeOrigin,  \* local stepWedgeOrigin[2] (= stepOrigin[2])
    stepWedgeSize,    \* local stepWedgeSize[2]
    step,             \* loop variable of the step loop
    \* ---- main() of the programs ----
    prog,             \* the program that runs
    argv,             \* its command line, argv[1..]
    user_options,     \* the parsed options
    mpc,              \* position of main: start, run, a handler, exited, aborted
    idx,              \* the stage of main that runs next
    thrown,           \* the exception in flight
    exitCode,         \* exit status of the process, -1 while there is none
    out,              \* the messages printed so far
    fstate,           \* state of the files named on the command line
    opened,           \* files a toolkit object has opened
    written,          \* output files written
    trace,            \* the stages executed so far, with their results
    \* ---- the frequency table of stat_demo ----
    spc,              \* position inside the statistics part of stat_demo
    table,            \* std::map<int, int> table
    draws,            \* counter i of the population loop
    drawn,            \* the samples random_int() has returned, in order
    total_occurences, \* local total_occurences
    counts,           \* the table as the population loop left it
    pending           \* keys the normalising loop has still to visit

wvars == <<wpc, od, dpi, NumRows, NumCols, image, stepWedgeOrigin,
           stepWedgeSize, step>>

mvars == <<prog, argv, user_options, mpc, idx, thrown, exitCode, out, fstate,
           opened, written, trace>>

svars == <<spc, table, draws, drawn, total_occurences, counts, pending>>

vars == <<wvars, mvars, svars>>

\* create_step_wedge is not running
WedgeIdle ==
    /\ wpc = "idle"
    /\ od = <<>>
    /\ dpi = 0
    /\ NumRows = 0
    /\ NumCols = 0
    /\ image = <<>>
    /\ stepWedgeOrigin = <<>>
    /\ stepWedgeSize = <<>>
    /\ step = 0

\* no main() is running
MainIdle ==
    /\ prog = "none"
    /\ argv = <<>>
    /\ user_options = <<>>
    /\ mpc = "idle"
    /\ idx = 0
    /\ thrown = <<>>
    /\ exitCode = -1
    /\ out = <<>>
    /\ fstate = <<>>
    /\ opened = {}
    /\ written = {}
    /\ trace = <<>>

\* the statistics part of stat_demo is not running
StatIdle ==
    /\ spc = "idle"
    /\ table = <<>>
    /\ draws = 0
    /\ drawn = <<>>
    /\ total_occurences = 0
    /\ counts = <<>>
    /\ pending = {}

-----------------------------------------------------------------------------
(***************************************************************************)
(* Arithmetic helpers.                                                     *)
(***************************************************************************)

Max(a, b) == IF a >= b THEN a ELSE b

Abs(a) == IF a >= 0 THEN a ELSE -a

RECURSIVE FloorPow2(_)
\* the largest power of two not above n (n >= 1): the binade of a double
FloorPow2(n) == IF n < 2 THEN 1 ELSE 2 * FloorPow2(n \div 2)

\* round(c/den * d) of <cmath>: halves round away from zero.  For every
\* constant of create_step_wedge but 1.59 the double product rounds as the
\* exact rational does.
RoundMul(c, den, d) == (2 * c * d + den) \div (2 * den)

-----------------------------------------------------------------------------
(***************************************************************************)
(* exp() in fixed point.  Values carry FixBits fractional bits; products   *)
(* are formed from 14 bit halves so that nothing leaves 32 bits.           *)
(***************************************************************************)

FixBits == 28

FixOne == 2 ^ FixBits

Half14 == 2 ^ 14

\* e = 2^1 * 1.359140914..., mantissa with FixBits fractional bits
EulerMant == 364841611

\* 1/e = 2^-2 * 1.471517764..., mantissa with FixBits fractional bits
InvEulerMant == 395006593

\* number of Taylor terms of exp on [0, 1)
ExpTerms == 14

MulQ(a, b) ==
    LET a1 == a \div Half14
        a0 == a % Half14
        b1 == b \div Half14
        b0 == b % Half14
    IN  a1 * b1 + ((a1 * b0 + a0 * b1 + ((a0 * b0) \div Half14)) \div Half14)

RECURSIVE Horner(_, _, _)
\* (the accumulator is compared first, so that it is a value, not a pending
\* expression, when the next term is formed)
Horner(t, k, acc) ==
    IF acc < FixOne \/ k = 0 THEN acc
    ELSE Horner(t, k - 1, FixOne + (MulQ(t, acc) \div k))

\* exp(t) for 0 <= t < 1
ExpFrac(t) == Horner(t, ExpTerms, FixOne)

RECURSIVE Norm(_)
\* mantissa back into [1, 2)
Norm(f) == IF f.m >= 2 * FixOne THEN Norm([m |-> f.m \div 2, e |-> f.e + 1])
           ELSE f

RECURSIVE TimesEuler(_, _)
\* f * e^n
TimesEuler(f, n) ==
    IF f.m < FixOne \/ n = 0 THEN f
    ELSE IF n > 0
         THEN TimesEuler(Norm([m |-> MulQ(f.m, EulerMant), e |-> f.e + 1]), n - 1)
         ELSE TimesEuler(Norm([m |-> MulQ(f.m, InvEulerMant), e |-> f.e - 2]), n + 1)

\* rem/den with FixBits fractional bits (0 <= rem < den < 2^17)
FracQ(rem, den) ==
    LET hi == (rem * Half14) \div den
        r2 == (rem * Half14) % den
    IN  hi * Half14 + ((r2 * Half14) \div den)

FloorDiv(a, b) == IF a >= 0 THEN a \div b ELSE -((-a + b - 1) \div b)

\* round(exp(num/den))
ExpRound(num, den) ==
    LET xi == FloorDiv(num, den)
        f  == TimesEuler(Norm([m |-> ExpFrac(FracQ(num - xi * den, den)),
                               e |-> 0]), xi)
        s  == FixBits - f.e
    IN  IF s > 30 THEN 0 ELSE (f.m + 2 ^ (s - 1)) \div (2 ^ s)

-----------------------------------------------------------------------------
(***************************************************************************)
(* create_step_wedge(): pure parts.                                        *)
(***************************************************************************)

White == 65535

\* static_cast<uint16_t>(double): the value itself when it is representable;
\* otherwise the conversion is undefined, and builds either truncate it
\* modulo 2^16 or saturate it.
CastU16(v) == IF v \in 0..65535 THEN {v} ELSE {v % 65536, 65535}

\* round(2140.00 + exp(-(od[step] - 6.966)/0.63)), d in 1/100 OD
PixelFormula(d) == 2140 + ExpRound(6966 - 10 * d, 630)

\* a mutation: a stepWidth of 0.25 inch
StepRowsMut(s, d) == RoundMul(59 + 25 * s, 100, d)

\* round((firstStepWidth + step * stepWidth) * dpi).  0.59 + 5*0.2 is the
\* double just below 1.59 (by 2^-46/100): on a tie the product rounds to the
\* half, and then up, only when that error is within half an ulp.
StepRows(s, d) ==
    LET c == 59 + 20 * s
    IN  IF s = 5 /\ (c * d) % 100 = 50
             /\ 128 * d > 100 * FloorPow2((c * d) \div 100)
        THEN (c * d) \div 100
        ELSE RoundMul(c, 100, d)

\* a mutation of the loop initialisation: the loop starts one step late
LoopStartMut == 20 - 1

\* step = 20, the initialisation of the step loop
LoopStart == 20

Rect(s, org, sz, pv) == [step |-> s, origin |-> org, size |-> sz, value |-> pv]

\* the uint16_t counters x, y never reach a bound above 65535
LoopsForever(org, sz) ==
    \/ org[1] + sz[1] > 65535
    \/ sz[1] > 0 /\ org[2] + sz[2] > 65535

\* every index handed to SetPixel lies in the allocated region
InRegion(org, sz, cols, rows) ==
    \/ sz[1] = 0
    \/ sz[2] = 0
    \/ org[1] + sz[1] <= cols /\ org[2] + sz[2] <= rows

\* outcomes of the two nested fill loops of one step
PaintOutcomes(org, sz, cols, rows) ==
    IF LoopsForever(org, sz) THEN {"hang", "crashed"}
    ELSE IF InRegion(org, sz, cols, rows) THEN {"ok"}
    ELSE {"ok", "crashed"}

-----------------------------------------------------------------------------
(***************************************************************************)
(* Inputs of create_step_wedge.                                            *)
(***************************************************************************)

\* the densities main() passes, in 1/100 OD
OdProgram ==
    [k \in 0..20 |->
        <<4, 20, 35, 51, 65, 80, 94, 111, 127, 143, 159, 173, 188, 202, 218,
          232, 249, 264, 279, 291, 308>>[k + 1]]

OdShifts == {-30, -4, 0, 400}

OdArrays == {[k \in 0..20 |-> OdProgram[k] + b] : b \in OdShifts}

DPIs == {1, 50, 150, 400, 12136, 12200, 13000, 13200, 65535}

NoImage == [allocated |-> FALSE, fill |-> <<>>, rects |-> <<>>]

WedgeInit ==
    /\ wpc = "entry"
    /\ od \in OdArrays
    /\ dpi \in DPIs
    /\ NumRows = 0
    /\ NumCols = 0
    /\ image = NoImage
    /\ stepWedgeOrigin = <<0, 0>>
    /\ stepWedgeSize = <<0, 0>>
    /\ step = 0
    /\ MainIdle
    /\ StatIdle

-----------------------------------------------------------------------------
(***************************************************************************)
(* create_step_wedge(): steps.                                             *)
(***************************************************************************)

\* image size, SetRegions, SetSpacing, Allocate
WedgeAllocate ==
    /\ wpc = "entry"
    /\ \E r \in CastU16(RoundMul(54, 10, dpi)), c \in CastU16(RoundMul(9, 10, dpi)) :
          /\ NumRows' = r
          /\ NumCols' = c
    /\ image' = [image EXCEPT !.allocated = TRUE]
    /\ wpc' = "allocated"
    /\ UNCHANGED <<od, dpi, stepWedgeOrigin, stepWedgeSize, step>>
    /\ UNCHANGED <<mvars, svars>>

\* Allocate() throws: the exception leaves create_step_wedge unguarded
WedgeAllocateFails ==
    /\ wpc = "entry"
    /\ wpc' = "threw"
    /\ UNCHANGED <<od, dpi, NumRows, NumCols, image, stepWedgeOrigin,
                   stepWedgeSize, step>>
    /\ UNCHANGED <<mvars, svars>>

\* FillBuffer(white)
WedgeFillBuffer ==
    /\ wpc = "allocated"
    /\ image' = [image EXCEPT !.fill = <<White, White, White>>]
    /\ wpc' = "filled"
    /\ UNCHANGED <<od, dpi, NumRows, NumCols, stepWedgeOrigin, stepWedgeSize,
                   step>>
    /\ UNCHANGED <<mvars, svars>>

\* stepWedgeOrigin, stepWedgeSize, stepOrigin and the loop initialisation
WedgeGeometry ==
    /\ wpc = "filled"
    /\ \E o \in CastU16(RoundMul(2, 10, dpi)),
          w \in CastU16(RoundMul(1, 2, dpi)),
          h \in CastU16(RoundMul(5, 1, dpi)) :
          /\ stepWedgeOrigin' = <<o, o>>
          /\ stepWedgeSize' = <<w, h>>
    /\ step' = LoopStart
    /\ wpc' = "loop"
    /\ UNCHANGED <<od, dpi, NumRows, NumCols, image>>
    /\ UNCHANGED <<mvars, svars>>

\* one iteration of the step loop: pixel value, step size, the two fill loops
WedgeLoopStep ==
    /\ wpc = "loop"
    /\ step > 0
    /\ \E r \in CastU16(PixelFormula(od[step])),
          g \in CastU16(PixelFormula(od[step])),
          b \in CastU16(PixelFormula(od[step])),
          h \in (IF 20 > step THEN CastU16(StepRows(step, dpi))
                 ELSE {stepWedgeSize[2]}) :
          LET sz == <<stepWedgeSize[1], h>> IN
          \E res \in PaintOutcomes(stepWedgeOrigin, sz, NumCols, NumRows) :
              /\ image' = [image EXCEPT !.rects =
                             Append(@, Rect(step, stepWedgeOrigin, sz, <<r, g, b>>))]
              /\ IF res = "ok"
                 THEN /\ step' = step - 1
                      /\ wpc' = "loop"
                 ELSE /\ step' = step
                      /\ wpc' = res
    /\ UNCHANGED <<od, dpi, NumRows, NumCols, stepWedgeOrigin, stepWedgeSize>>
    /\ UNCHANGED <<mvars, svars>>

\* the first step, painted after the loop
WedgeFirstStep ==
    /\ wpc = "loop"
    /\ step = 0
    /\ \E r \in CastU16(PixelFormula(od[0])),
          g \in CastU16(PixelFormula(od[0])),
          b \in CastU16(PixelFormula(od[0])),
          h \in CastU16(RoundMul(59, 100, dpi)) :
          LET sz == <<stepWedgeSize[1], h>> IN
          \E res \in PaintOutcomes(stepWedgeOrigin, sz, NumCols, NumRows) :
              /\ image' = [image EXCEPT !.rects =
                             Append(@, Rect(0, stepWedgeOrigin, sz, <<r, g, b>>))]
              /\ wpc' = IF res = "ok" THEN "return" ELSE res
    /\ UNCHANGED <<od, dpi, NumRows, NumCols, stepWedgeOrigin, stepWedgeSize,
                   step>>
    /\ UNCHANGED <<mvars, svars>>

\* return image
WedgeReturn ==
    /\ wpc = "return"
    /\ wpc' = "done"
    /\ UNCHANGED <<od, dpi, NumRows, NumCols, image, stepWedgeOrigin,
                   stepWedgeSize, step>>
    /\ UNCHANGED <<mvars, svars>>

WedgeNext ==
    \/ WedgeAllocate
    \/ WedgeAllocateFails
    \/ WedgeFillBuffer
    \/ WedgeGeometry
    \/ WedgeLoopStep
    \/ WedgeFirstStep
    \/ WedgeReturn

SpecWedge == WedgeInit /\ [][WedgeNext]_vars

-----------------------------------------------------------------------------
(***************************************************************************)
(* create_step_wedge(): properties.                                        *)
(***************************************************************************)

PaintOrder == <<20, 19, 18, 17, 16, 15, 14, 13, 12, 11, 10, 9, 8, 7, 6, 5, 4,
                3, 2, 1, 0>>

\* the steps painted so far, in the order of painting
PaintedSteps == [i \in 1..Len(image.rects) |-> image.rects[i].step]

Saturate(v) == IF v > 65535 THEN 65535 ELSE IF v < 0 THEN 0 ELSE v

\* painted height of step k, once all 21 steps are painted
Height(k) == image.rects[21 - k].size[2]

\* the rows that finally show step k: those of its rectangle that no step
\* painted after it (a lower index, same origin) covers
BandHeight(k) ==
    IF k = 0 THEN Height(0)
    ELSE LET later == {Height(j) : j \in 0..(k - 1)}
             top   == CHOOSE m \in later : \A x \in later : m >= x
         IN  Max(0, Height(k) - top)

RECURSIVE BandSum(_)
\* band heights of steps 1..k
BandSum(k) == IF k = 0 THEN 0 ELSE BandHeight(k) + BandSum(k - 1)

\* C1: every component of the pixel value painted for a step is
\* round(2140 + exp(-(od[step] - 6.966)/0.63)) saturated to 0..65535.
C1_PixelSaturated ==
    \A i \in 1..Len(image.rects) :
        LET v == Saturate(PixelFormula(od[image.rects[i].step]))
        IN  image.rects[i].value = <<v, v, v>>

\* C2: stepWedgeSize[1] is round(5.00*dpi), and when the wedge is painted the
\* band heights of steps 1..20 plus the first step's round(0.59*dpi) equal it
\* within one pixel.
C2_BandSum ==
    /\ wpc \in {"loop", "return", "done"} => stepWedgeSize[2] = RoundMul(5, 1, dpi)
    /\ wpc = "done" =>
          Abs(BandSum(20) + RoundMul(59, 100, dpi) - stepWedgeSize[2]) <= 1

\* C3: nothing is painted before the image is allocated and filled white, and
\* the steps are painted in the order 20, 19, ..., 1 and then 0.
C3_PaintOrder ==
    /\ Len(image.rects) <= 21
    /\ PaintedSteps = SubSeq(PaintOrder, 1, Len(image.rects))
    /\ image.rects # <<>> =>
          image.allocated /\ image.fill = <<White, White, White>>
    /\ image.fill # <<>> => image.allocated

\* C3 witness: the function returned with all 21 steps painted.
C3_Painted == wpc = "done" /\ PaintedSteps = PaintOrder

\* C8: create_step_wedge never stays in a fill loop for ever and never stops
\* on an invalid access: every call runs on to its return.
C8_RunsToCompletion == wpc \notin {"hang", "crashed"}


-----------------------------------------------------------------------------
(***************************************************************************)
(* main(): command lines and their parsing.                                *)
(***************************************************************************)

\* programs whose main() parses argv with clipp and tests the switches
ScaffoldProgs ==
    {"app", "create_image", "create_image_from_buffer", "create_step_wedge",
     "image_affine_transform", "image_registration", "rgb_to_luminance",
     "shift_epid", "split_channels_cpp", "split_channels_cxx", "stat_demo"}

\* programs whose main() reads argv[1] itself, or nothing at all
PlainProgs == {"rectangle_to_image", "shifts_calculator", "step_wedge_denoise"}

Progs == ScaffoldProgs \cup PlainProgs

\* programs whose main body is inside try { } catch (int) catch (...)
TryProgs == ScaffoldProgs \ {"shift_epid"}

\* longest command line, in arguments
MaxArgs == 3

\* one argument: a flag, a flag with its value, or (flag "") a bare value
Tok(f, v) == [flag |-> f, val |-> v]

CommonTokens ==
    {Tok("--help", ""), Tok("--usage", ""), Tok("--version", ""),
     Tok("--bogus", ""), Tok("", "in.tif")}

\* the value options of a program that the runs below depend on
ProgTokens(p) ==
    CASE p = "image_registration" ->
            {Tok("-f", "in.tif"), Tok("-m", "mov.tif"), Tok("--overwrite", "")}
      [] p = "split_channels_cxx" ->
            {Tok("-c", "R"), Tok("-c", "Green"), Tok("-c", "BLUE"),
             Tok("-c", "x"), Tok("-c", "rgb"), Tok("--overwrite", "")}
      [] p = "rgb_to_luminance" -> {Tok("--overwrite", "")}
      [] p = "create_image_from_buffer" ->
            {Tok("-w", "1"), Tok("-w", "9"), Tok("-w", "10"),
             Tok("--height", "9"), Tok("--height", "10")}
      [] p = "shift_epid" ->
            {Tok("-x", "199.9"), Tok("-x", "200.0"), Tok("-x", "200.1"),
             Tok("-y", "-200.0"), Tok("-y", "-200.1"),
             Tok("", "dir/in.dcm"), Tok("-o", "out.dcm")}
      [] OTHER -> {}

Tokens(p) == CommonTokens \cup ProgTokens(p)

\* the first word of an argument, as main() sees it in argv[]
Raw(t) == IF t.flag # "" THEN t.flag ELSE t.val

\* command lines: up to MaxArgs different arguments, no option given twice
ArgvLines(p) ==
    UNION {{a \in [1..n -> Tokens(p)] :
               \A j, k \in 1..n : j # k => Raw(a[j]) # Raw(a[k])} :
           n \in 0..MaxArgs}

\* the output files that are tested for existence, by the part of the name
\* that is put between the stem and the extension of the input file
OutputNames == {"_luminance", "_R", "_G", "_B", "_registered"}

\* every name a program can take for an input file, and the output files
FileNames ==
    {"in.tif", "mov.tif", "dir/in.dcm", "--help", "--usage", "--version",
     "--bogus"} \cup OutputNames

FileStates == {"missing", "dir", "empty", "unreadable", "ok", "staterr"}

\* number of positional values the parser of a program accepts
Positionals(p) ==
    CASE p \in {"app", "rgb_to_luminance", "split_channels_cxx", "shift_epid"} -> 1
      [] p \in {"image_affine_transform", "split_channels_cpp"} -> 2
      [] OTHER -> 0

\* a mutation: the value is compared as it was given
StrToLowerMut(v) == v

\* std::transform(..., tolower) of str_tolower, on the values of --channel
StrToLower(v) ==
    CASE v = "R" -> "r"
      [] v = "Green" -> "green"
      [] v = "BLUE" -> "blue"
      [] OTHER -> v

\* fs::path(p).parent_path() of the input files
ParentPath(p) == CASE p = "dir/in.dcm" -> "dir" [] OTHER -> ""

\* fs::path(p).stem(): the last component without its extension
Stem(p) == CASE p \in {"in.tif", "dir/in.dcm"} -> "in" [] OTHER -> p

\* fs::path(p).extension(): from the last dot of the last component
Extension(p) ==
    CASE p = "in.tif" -> ".tif"
      [] p = "dir/in.dcm" -> ".dcm"
      [] OTHER -> ""

\* outBaseName + "_shifted" + outExtension
DefaultOutput(p) == Stem(p) \o "_shifted" \o Extension(p)

\* the conversion of a width or height value to unsigned short
SizeValue(v) ==
    CASE v = "1" -> 1
      [] v = "9" -> 9
      [] v = "10" -> 10

\* a mutation: only a size of zero is refused
MinSizeMut == 10 - 9

\* the least width and height create_image_from_buffer takes
MinSize == 10

\* strtof of a shift value, in 1/10 mm
ShiftValue(v) ==
    CASE v = "199.9" -> 1999
      [] v = "200.0" -> 2000
      [] v = "200.1" -> 2001
      [] v = "-200.0" -> 0 - 2000
      [] v = "-200.1" -> 0 - 2001

\* kShiftLimit{200.0}, in 1/10 mm
kShiftLimit == 2000

\* CLIOptions as initialised before parsing; shifts in 1/10 mm
DefaultOptions ==
    [show_help |-> FALSE, print_usage |-> FALSE, show_version |-> FALSE,
     unsupported |-> FALSE, input_file |-> "", moving_image |-> "",
     output_file |-> "", channel |-> "all", x_shift |-> 0, y_shift |-> 0,
     overwrite |-> FALSE, width |-> 400, height |-> 400]

\* clipp::parse, one argument
ParseArg(p, o, t) ==
    CASE t.flag = "--help" -> [o EXCEPT !.show_help = TRUE]
      [] t.flag = "--usage" -> [o EXCEPT !.print_usage = TRUE]
      [] t.flag = "--version" -> [o EXCEPT !.show_version = TRUE]
      [] t.flag = "-f" /\ p = "image_registration" ->
            [o EXCEPT !.input_file = t.val]
      [] t.flag = "-m" /\ p = "image_registration" ->
            [o EXCEPT !.moving_image = t.val]
      [] t.flag = "-c" /\ p = "split_channels_cxx" ->
            [o EXCEPT !.channel = t.val]
      [] t.flag = "--overwrite"
            /\ p \in {"image_registration", "rgb_to_luminance",
                      "split_channels_cxx"} ->
            [o EXCEPT !.overwrite = TRUE]
      [] t.flag = "-w" /\ p = "create_image_from_buffer" ->
            [o EXCEPT !.width = SizeValue(t.val)]
      [] t.flag = "--height" /\ p = "create_image_from_buffer" ->
            [o EXCEPT !.height = SizeValue(t.val)]
      [] t.flag = "-o" /\ p = "shift_epid" ->
            [o EXCEPT !.output_file = t.val]
      [] t.flag = "-x" /\ p = "shift_epid" ->
            [o EXCEPT !.x_shift = ShiftValue(t.val)]
      [] t.flag = "-y" /\ p = "shift_epid" ->
            [o EXCEPT !.y_shift = ShiftValue(t.val)]
      [] t.flag = "" /\ Positionals(p) >= 1 /\ o.input_file = "" ->
            [o EXCEPT !.input_file = t.val]
      [] t.flag = "" /\ Positionals(p) >= 2 /\ o.output_file = "" ->
            [o EXCEPT !.output_file = t.val]
      [] OTHER -> [o EXCEPT !.unsupported = TRUE]

RECURSIVE ParseArgs(_, _, _)
\* clipp::parse(argc, argv, parser_config)
ParseArgs(p, o, a) ==
    IF a = <<>> THEN o ELSE ParseArgs(p, ParseArg(p, o, Head(a)), Tail(a))

\* what main() knows of its arguments when the stages start
Options(p, a) ==
    IF p \in ScaffoldProgs THEN ParseArgs(p, DefaultOptions, a)
    ELSE IF p = "rectangle_to_image" \/ a = <<>> THEN DefaultOptions
    ELSE [DefaultOptions EXCEPT !.input_file = Raw(a[1])]

-----------------------------------------------------------------------------
(***************************************************************************)
(* main(): the stages of each program, in source order.                    *)
(*                                                                         *)
(* A stage is one test or call of main():                                  *)
(*   switch - a test of a parsed switch, which prints and leaves;          *)
(*   cond   - a test of the arguments (det "arg") or of data the model     *)
(*            leaves open (det "env"), which prints and fails;             *)
(*   fs     - a std::filesystem or std::ifstream test of a file;           *)
(*   out    - the test that an output file does not exist yet;             *)
(*   set    - the choice of the name of the output file (shift_epid);      *)
(*   tk     - a toolkit test that opens the file (CanReadFile);            *)
(*   call   - a call that may throw; guard names the exception type its    *)
(*            own try/catch handles, "none" if it stands outside any;      *)
(*   end    - the successful end of main().                                *)
(* mech is how the stage leaves main(): "throw" (throw EXIT_...) or        *)
(* "return" (return EXIT_...).                                             *)
(***************************************************************************)

Stage(k, n, f, m) ==
    [k |-> k, name |-> n, file |-> f, mech |-> m, det |-> "env",
     guard |-> "none", update |-> FALSE, throws |-> {}, writes |-> "",
     when |-> {}]

Sw(n, m) == Stage("switch", n, "", m)

Given(n, f, m) == [Stage("cond", n, f, m) EXCEPT !.det = "arg"]

Env(n, m) == Stage("cond", n, "", m)

Fs(n, f, m) == Stage("fs", n, f, m)

Tk(n, f, m) == Stage("tk", n, f, m)

\* if (m_OutputFile.empty()) m_OutputFile = ...
Name(m) == Stage("set", "output file name", "in", m)

\* if (!overwrite && fs::exists(<stem> + f + <ext>))
Out(f, m) == Stage("out", "output exists", f, m)

\* exception types a toolkit call raises: itk::ExceptionObject, or another
\* std::exception such as std::bad_alloc
ToolkitThrows == {"itk", "std"}

Call(n, f, g, m, th) == [Stage("call", n, f, m) EXCEPT !.guard = g, !.throws = th]

\* an Update() of a pipeline object; w names the file it writes, if any
Upd(n, f, g, m, w) ==
    [Call(n, f, g, m, ToolkitThrows) EXCEPT !.update = TRUE, !.writes = w]

\* a call that writes the file w when it succeeds
Wr(st, w) == [st EXCEPT !.writes = w]

\* a stage that runs only for the listed channel values
On(st, chans) == [st EXCEPT !.when = chans]

End(m) == Stage("end", "success", "", m)

\* app.cpp, main
\* a mutation: the regular-file test is made before the existence test
AppStagesMut ==
    <<Sw("unsupported", "throw"), Sw("help", "throw"), Sw("usage", "throw"),
      Sw("version", "throw"),
      Given("given", "in", "throw"),
      Fs("regular", "in", "throw"), Fs("exists", "in", "throw"),
      Fs("nonempty", "in", "throw"), Fs("open", "in", "throw"),
      Call("CSVReader", "in", "none", "throw", {"runtime", "std"}),
      Call("CSVReader rows", "in", "runtime", "throw", {"runtime", "std"}),
      Env("sodium_init", "throw"), Env("sqlite3_open", "throw"),
      End("throw")>>

\* app.cpp, main
AppStages ==
    <<Sw("unsupported", "throw"), Sw("help", "throw"), Sw("usage", "throw"),
      Sw("version", "throw"),
      Given("given", "in", "throw"),
      Fs("exists", "in", "throw"), Fs("regular", "in", "throw"),
      Fs("nonempty", "in", "throw"), Fs("open", "in", "throw"),
      Call("CSVReader", "in", "none", "throw", {"runtime", "std"}),
      Call("CSVReader rows", "in", "runtime", "throw", {"runtime", "std"}),
      Env("sodium_init", "throw"), Env("sqlite3_open", "throw"),
      End("throw")>>

\* create_image.cpp, main
CreateImageStages ==
    <<Sw("unsupported", "throw"), Sw("help", "throw"), Sw("usage", "throw"),
      Sw("version", "throw"),
      Call("Allocate", "", "none", "throw", ToolkitThrows),
      Upd("writer->Update", "", "itk", "throw", "output.tiff"),
      End("throw")>>

\* create_image_from_buffer.cxx, main
CreateImageFromBufferStages ==
    <<Sw("unsupported", "throw"), Sw("help", "throw"), Sw("usage", "throw"),
      Sw("version", "throw"),
      Given("width or height below 10", "", "throw"),
      Call("createBufferImage", "", "none", "throw", {"noexcept"}),
      Upd("writer->Update", "", "itk", "throw", "output.tif"),
      End("throw")>>

\* create_step_wedge.cxx, main
\* a mutation: the help switch is tested before the unsupported options
CreateStepWedgeStagesMut ==
    <<Sw("help", "throw"), Sw("unsupported", "throw"), Sw("usage", "throw"),
      Sw("version", "throw"),
      Call("create_step_wedge", "", "none", "throw", ToolkitThrows),
      Upd("writer->Update", "", "itk", "throw", "output.tiff"),
      End("throw")>>

CreateStepWedgeStages ==
    <<Sw("unsupported", "throw"), Sw("help", "throw"), Sw("usage", "throw"),
      Sw("version", "throw"),
      Call("create_step_wedge", "", "none", "throw", ToolkitThrows),
      Upd("writer->Update", "", "itk", "throw", "output.tiff"),
      End("throw")>>

\* image_affine_transform.cpp, main
ImageAffineTransformStages ==
    <<Sw("unsupported", "throw"), Sw("help", "throw"), Sw("usage", "throw"),
      Sw("version", "throw"),
      Given("given", "in", "throw"),
      Fs("exists", "in", "throw"), Fs("regular", "in", "throw"),
      Fs("nonempty", "in", "throw"), Fs("open", "in", "throw"),
      Env("output exists", "throw"),
      Call("ReadImage", "in", "itk", "throw", ToolkitThrows),
      Upd("writer->Update", "", "itk", "throw", "OUTPUT_FILE"),
      End("throw")>>

\* image_registration.cxx, main
ImageRegistrationStages ==
    <<Sw("unsupported", "throw"), Sw("help", "throw"), Sw("usage", "throw"),
      Sw("version", "throw"),
      Given("given", "in", "throw"),
      Fs("exists", "in", "throw"), Fs("regular", "in", "throw"),
      Fs("nonempty", "in", "throw"), Fs("open", "in", "throw"),
      Tk("CanReadFile", "in", "throw"),
      Call("ReadImageInformation", "in", "none", "throw", ToolkitThrows),
      Env("fixed compressed", "throw"), Env("fixed not RGB", "throw"),
      Env("fixed not 16 bit", "throw"),
      Given("given", "mov", "throw"),
      Fs("exists", "mov", "throw"), Fs("regular", "mov", "throw"),
      Fs("nonempty", "mov", "throw"), Fs("open", "mov", "throw"),
      Tk("CanReadFile", "mov", "throw"),
      Call("ReadImageInformation", "mov", "none", "throw", ToolkitThrows),
      Env("moving compressed", "throw"), Env("moving not RGB", "throw"),
      Env("moving not 16 bit", "throw"),
      Out("_registered", "throw"),
      Upd("fixed_image->Update", "in", "itk", "return", ""),
      Upd("moving_image->Update", "mov", "itk", "return", ""),
      Upd("fixed_luminance->Update", "", "itk", "return", ""),
      Upd("moving_luminance->Update", "", "itk", "return", ""),
      Upd("rgb_writer->Update fixed", "", "itk", "throw", "fixed_image.tif"),
      Upd("rgb_writer->Update moving", "", "itk", "throw", "moving_image.tif"),
      Upd("mono_writer->Update fixed", "", "itk", "throw", "fixed_luminance.tif"),
      Upd("mono_writer->Update moving", "", "itk", "throw", "moving_luminance.tif"),
      Upd("registration->Update", "", "itk", "return", ""),
      Upd("rgb_writer->Update registered", "", "itk", "return", "_registered"),
      Upd("rgb_writer->Update difference", "", "itk", "return", "difference.tif"),
      End("throw")>>

\* rectangle_to_image.cxx, main
RectangleToImageStages ==
    <<Upd("polygon->Update", "", "none", "return", ""),
      Upd("imageFilter->Update", "", "none", "return", ""),
      Upd("writer->Update", "", "itk", "return", "polygon_image.tiff"),
      End("return")>>

\* rgb_to_luminance.cxx, main
RgbToLuminanceStages ==
    <<Sw("unsupported", "throw"), Sw("help", "throw"), Sw("usage", "throw"),
      Sw("version", "throw"),
      Given("given", "in", "throw"),
      Fs("exists", "in", "throw"), Fs("regular", "in", "throw"),
      Fs("nonempty", "in", "throw"), Fs("open", "in", "throw"),
      Out("_luminance", "throw"),
      Tk("CanReadFile", "in", "throw"),
      Call("ReadImageInformation", "in", "none", "throw", ToolkitThrows),
      Env("compressed", "throw"), Env("not RGB", "throw"),
      Env("not 16 bit", "throw"),
      Upd("writer->Update", "in", "itk", "throw", "_luminance"),
      End("throw")>>

\* shift_epid.cxx, main
ShiftEpidStages ==
    <<Sw("unsupported", "return"), Sw("help", "return"), Sw("usage", "return"),
      Sw("version", "return"),
      Given("given", "in", "return"),
      Fs("exists", "in", "return"), Fs("regular", "in", "return"),
      Fs("nonempty", "in", "return"),
      Tk("CanReadFile", "in", "return"),
      Given("x shift out of limits", "", "return"),
      Given("y shift out of limits", "", "return"),
      Name("return"),
      Upd("reader->Update", "in", "itk", "return", ""),
      Upd("resampler->Update", "", "itk", "return", ""),
      Upd("writer->Update", "", "itk", "return", "m_OutputFile"),
      End("return")>>

\* shifts_calculator.cxx, main
ShiftsCalculatorStages ==
    <<Given("given", "in", "return"),
      Upd("reader->Update", "in", "itk", "return", ""),
      Env("tag not found", "return"), Env("entry not a string", "return"),
      Upd("filter->Update", "", "none", "return", ""),
      Call("calculator1->Compute", "", "itk", "return", ToolkitThrows),
      Wr(Call("WriteImage", "", "itk", "return", ToolkitThrows), "output.tif"),
      Upd("flipFilter->Update", "", "none", "return", ""),
      Call("calculator2->Compute", "", "itk", "return", ToolkitThrows),
      Call("calculator2->Compute again", "", "none", "return", ToolkitThrows),
      Wr(Call("WriteImage flipped", "", "itk", "return", ToolkitThrows),
         "output_flipped.tif"),
      End("return")>>

\* split_channels.cpp, main
SplitChannelsCppStages ==
    <<Sw("unsupported", "throw"), Sw("help", "throw"), Sw("usage", "throw"),
      Sw("version", "throw"),
      Given("given", "in", "throw"),
      Fs("exists", "in", "throw"), Fs("regular", "in", "throw"),
      Fs("nonempty", "in", "throw"), Fs("open", "in", "throw"),
      Env("output exists", "throw"),
      Call("ReadImageInformation", "in", "itk", "throw", ToolkitThrows),
      End("throw")>>

\* split_channels.cxx, main
SplitChannelsCxxStages ==
    <<Sw("unsupported", "throw"), Sw("help", "throw"), Sw("usage", "throw"),
      Sw("version", "throw"),
      Given("channel", "", "throw"),
      Given("given", "in", "throw"),
      Fs("exists", "in", "throw"), Fs("regular", "in", "throw"),
      Fs("nonempty", "in", "throw"), Fs("open", "in", "throw"),
      On(Out("_R", "throw"), {"r", "red", "all"}),
      On(Out("_G", "throw"), {"g", "green", "all"}),
      On(Out("_B", "throw"), {"b", "blue", "all"}),
      Tk("CanReadFile", "in", "throw"),
      Call("ReadImageInformation", "in", "none", "throw", ToolkitThrows),
      Env("compressed", "throw"), Env("not RGB", "throw"),
      Env("not 16 bit", "throw"),
      On(Upd("red_writer->Update", "in", "itk", "throw", "_R"), {"r", "red", "all"}),
      On(Upd("green_writer->Update", "in", "itk", "throw", "_G"), {"g", "green", "all"}),
      On(Upd("blue_writer->Update", "in", "itk", "throw", "_B"), {"b", "blue", "all"}),
      End("throw")>>

\* stat_demo.cpp, main
\* a mutation: the usage switch is tested before the help switch
StatDemoStagesMut ==
    <<Sw("unsupported", "throw"), Sw("usage", "throw"), Sw("help", "throw"),
      Sw("version", "throw"),
      Env("mean not an integer", "throw"),
      Env("standard deviation not an integer", "throw"),
      Call("random_device", "", "none", "throw", {"std"}),
      End("throw")>>

StatDemoStages ==
    <<Sw("unsupported", "throw"), Sw("help", "throw"), Sw("usage", "throw"),
      Sw("version", "throw"),
      Env("mean not an integer", "throw"),
      Env("standard deviation not an integer", "throw"),
      Call("random_device", "", "none", "throw", {"std"}),
      End("throw")>>

\* step_wedge_denoise.cxx, main
\* a mutation: the 16-bit test is made after the writer has run
StepWedgeDenoiseStagesMut ==
    <<Given("given", "in", "return"),
      Tk("CanReadFile", "in", "return"),
      Call("ReadImageInformation", "in", "none", "return", ToolkitThrows),
      Env("compressed", "return"), Env("not RGB", "return"),
      Upd("red_writer->Update", "in", "itk", "throw", "_R"),
      Env("not 16 bit", "return"),
      End("return")>>

StepWedgeDenoiseStages ==
    <<Given("given", "in", "return"),
      Tk("CanReadFile", "in", "return"),
      Call("ReadImageInformation", "in", "none", "return", ToolkitThrows),
      Env("compressed", "return"), Env("not RGB", "return"),
      Env("not 16 bit", "return"),
      Upd("red_writer->Update", "in", "itk", "throw", "_R"),
      End("return")>>

StagesOf(p) ==
    CASE p = "app" -> AppStages
      [] p = "create_image" -> CreateImageStages
      [] p = "create_image_from_buffer" -> CreateImageFromBufferStages
      [] p = "create_step_wedge" -> CreateStepWedgeStages
      [] p = "image_affine_transform" -> ImageAffineTransformStages
      [] p = "image_registration" -> ImageRegistrationStages
      [] p = "rectangle_to_image" -> RectangleToImageStages
      [] p = "rgb_to_luminance" -> RgbToLuminanceStages
      [] p = "shift_epid" -> ShiftEpidStages
      [] p = "shifts_calculator" -> ShiftsCalculatorStages
      [] p = "split_channels_cpp" -> SplitChannelsCppStages
      [] p = "split_channels_cxx" -> SplitChannelsCxxStages
      [] p = "stat_demo" -> StatDemoStages
      [] p = "step_wedge_denoise" -> StepWedgeDenoiseStages

-----------------------------------------------------------------------------
(***************************************************************************)
(* main(): steps.                                                          *)
(***************************************************************************)

NoThrow == [t |-> "none", v |-> 0, update |-> FALSE]

MainInit ==
    /\ WedgeIdle
    /\ StatIdle
    /\ prog \in Progs
    /\ argv \in ArgvLines(prog)
    /\ user_options = DefaultOptions
    /\ mpc = "start"
    /\ idx = 0
    /\ thrown = NoThrow
    /\ exitCode = -1
    /\ out = <<>>
    /\ fstate = [n \in FileNames |-> "unknown"]
    /\ opened = {}
    /\ written = {}
    /\ trace = <<>>

CurStage == StagesOf(prog)[idx]

\* the file a stage works on
FileOf(f) ==
    CASE f = "in" -> user_options.input_file
      [] f = "mov" -> user_options.moving_image
      [] OTHER -> ""

\* a mutation: every switch leaves with EXIT_FAILURE
SwitchCodeMut(n) == IF n = "unsupported" THEN 1 ELSE 1

\* EXIT_FAILURE for unsupported options, EXIT_SUCCESS for the three switches
SwitchCode(n) == IF n = "unsupported" THEN 1 ELSE 0

Triggered(n) ==
    CASE n = "unsupported" -> user_options.unsupported
      [] n = "help" -> user_options.show_help
      [] n = "usage" -> user_options.print_usage
      [] n = "version" -> user_options.show_version

Channels == {"r", "red", "g", "green", "b", "blue", "all"}

\* an argument test fails
ArgMissing(st) ==
    CASE st.name = "channel" -> StrToLower(user_options.channel) \notin Channels
      [] st.name = "width or height below 10" ->
            user_options.width < MinSize \/ user_options.height < MinSize
      [] st.name = "x shift out of limits" ->
            kShiftLimit < Abs(user_options.x_shift)
      [] st.name = "y shift out of limits" ->
            kShiftLimit < Abs(user_options.y_shift)
      [] OTHER -> FileOf(st.file) = ""

\* fs::exists, fs::is_regular_file, fs::file_size == 0 and ifstream::is_open
\* on a file in state fs: the test passes, fails, or throws filesystem_error
FsOutcome(n, fs) ==
    CASE n = "exists" ->
            IF fs = "staterr" THEN "threw"
            ELSE IF fs = "missing" THEN "fail" ELSE "pass"
      [] n = "regular" ->
            IF fs = "staterr" THEN "threw"
            ELSE IF fs \in {"missing", "dir"} THEN "fail" ELSE "pass"
      [] n = "nonempty" ->
            IF fs \in {"staterr", "missing", "dir"} THEN "threw"
            ELSE IF fs = "empty" THEN "fail" ELSE "pass"
      [] n = "open" ->
            IF fs \in {"staterr", "missing", "unreadable"} THEN "fail" ELSE "pass"

\* the states a file may be found in when a stage looks at it
Found(f) == IF fstate[f] = "unknown" THEN FileStates ELSE {fstate[f]}

Logged(st, res) ==
    Append(trace, [i |-> idx, k |-> st.k, name |-> st.name, file |-> st.file,
                   res |-> res])

\* the next stage
Advance ==
    /\ idx' = idx + 1
    /\ mpc' = "run"
    /\ UNCHANGED <<thrown, exitCode>>

\* throw EXIT_... or return EXIT_...
Leave(m, code) ==
    /\ idx' = idx
    /\ IF m = "return"
       THEN /\ mpc' = "exited"
            /\ exitCode' = code
            /\ thrown' = thrown
       ELSE /\ mpc' = IF prog \in TryProgs THEN "catch_int" ELSE "terminate"
            /\ exitCode' = exitCode
            /\ thrown' = [t |-> "int", v |-> code, update |-> FALSE]

\* an exception no local handler takes; one that would leave a function
\* declared noexcept (createBufferImage) calls std::terminate at once
Propagate(e, upd) ==
    /\ idx' = idx
    /\ mpc' = IF prog \in TryProgs /\ e # "noexcept" THEN "catch_all"
              ELSE "terminate"
    /\ exitCode' = exitCode
    /\ thrown' = [t |-> e, v |-> 0, update |-> upd]

\* clipp::parse, or the use of argv[1]
MainParse ==
    /\ mpc = "start"
    /\ user_options' = Options(prog, argv)
    /\ mpc' = "run"
    /\ idx' = 1
    /\ UNCHANGED <<prog, argv, thrown, exitCode, out, fstate, opened, written,
                   trace>>
    /\ UNCHANGED <<wvars, svars>>

\* if (unsupported / show_help / print_usage / show_version)
RunSwitch ==
    /\ mpc = "run"
    /\ CurStage.k = "switch"
    /\ IF Triggered(CurStage.name)
       THEN /\ out' = Append(out, CurStage.name)
            /\ trace' = Logged(CurStage, "taken")
            /\ Leave(CurStage.mech, SwitchCode(CurStage.name))
       ELSE /\ out' = out
            /\ trace' = Logged(CurStage, "pass")
            /\ Advance
    /\ UNCHANGED <<prog, argv, user_options, fstate, opened, written>>
    /\ UNCHANGED <<wvars, svars>>

\* a validation of the arguments or of the data
RunCond ==
    /\ mpc = "run"
    /\ CurStage.k = "cond"
    /\ \E fails \in (IF CurStage.det = "arg" THEN {ArgMissing(CurStage)}
                     ELSE BOOLEAN) :
          IF fails
          THEN /\ out' = Append(out, CurStage.name)
               /\ trace' = Logged(CurStage, "fail")
               /\ Leave(CurStage.mech, 1)
               /\ user_options' = user_options
          ELSE /\ out' = out
               /\ trace' = Logged(CurStage, "pass")
               /\ Advance
               /\ user_options' =
                     IF CurStage.name = "channel"
                     THEN [user_options EXCEPT !.channel = StrToLower(@)]
                     ELSE user_options
    /\ UNCHANGED <<prog, argv, fstate, opened, written>>
    /\ UNCHANGED <<wvars, svars>>

\* a std::filesystem test, or the std::ifstream open, of an input file
RunFs ==
    /\ mpc = "run"
    /\ CurStage.k = "fs"
    /\ LET f == FileOf(CurStage.file) IN
       \E fs \in Found(f) :
          /\ fstate' = [fstate EXCEPT ![f] = fs]
          /\ LET res == FsOutcome(CurStage.name, fs) IN
             /\ trace' = Logged(CurStage, res)
             /\ CASE res = "pass" -> out' = out /\ Advance
                  [] res = "fail" ->
                        /\ out' = Append(out, CurStage.name)
                        /\ Leave(CurStage.mech, 1)
                  [] res = "threw" ->
                        /\ out' = out
                        /\ Propagate("runtime", FALSE)
    /\ UNCHANGED <<prog, argv, user_options, opened, written>>
    /\ UNCHANGED <<wvars, svars>>

\* the output file of shift_epid gets its name if the user gave none
RunSet ==
    /\ mpc = "run"
    /\ CurStage.k = "set"
    /\ user_options' =
          [user_options EXCEPT
              !.output_file = IF @ = ""
                              THEN DefaultOutput(FileOf(CurStage.file))
                              ELSE @]
    /\ trace' = Logged(CurStage, "pass")
    /\ Advance
    /\ UNCHANGED <<prog, argv, out, fstate, opened, written>>
    /\ UNCHANGED <<wvars, svars>>

\* a mutation: the existence test is made whether or not --overwrite is given
OutCheckAppliesMut(st) ==
    st.when = {} \/ user_options.channel \in st.when

\* the conditions before fs::exists in the test of an output file: the
\* channel of the file is selected and --overwrite is not given
OutCheckApplies(st) ==
    /\ st.when = {} \/ user_options.channel \in st.when
    /\ ~user_options.overwrite

\* the test of an output file: fs::exists is called only if the conditions
\* before it hold; an existing file is reported and the run fails
RunOut ==
    /\ mpc = "run"
    /\ CurStage.k = "out"
    /\ IF OutCheckApplies(CurStage)
       THEN \E fs \in Found(CurStage.file) :
               /\ fstate' = [fstate EXCEPT ![CurStage.file] = fs]
               /\ LET res == FsOutcome("exists", fs) IN
                  CASE res = "pass" ->
                          /\ out' = Append(out, CurStage.name)
                          /\ trace' = Logged(CurStage, "fail")
                          /\ Leave(CurStage.mech, 1)
                    [] res = "fail" ->
                          /\ out' = out
                          /\ trace' = Logged(CurStage, "pass")
                          /\ Advance
                    [] res = "threw" ->
                          /\ out' = out
                          /\ trace' = Logged(CurStage, "threw")
                          /\ Propagate("runtime", FALSE)
       ELSE /\ fstate' = fstate
            /\ out' = out
            /\ trace' = Logged(CurStage, "skipped")
            /\ Advance
    /\ UNCHANGED <<prog, argv, user_options, opened, written>>
    /\ UNCHANGED <<wvars, svars>>

\* CanReadFile: the image IO object opens the file and looks at its header
RunTk ==
    /\ mpc = "run"
    /\ CurStage.k = "tk"
    /\ LET f == FileOf(CurStage.file) IN
       \E fs \in Found(f) :
          /\ fstate' = [fstate EXCEPT ![f] = fs]
          /\ opened' = opened \cup {f}
          /\ \E can \in (IF fs = "ok" THEN BOOLEAN ELSE {FALSE}) :
                IF can
                THEN /\ out' = out
                     /\ trace' = Logged(CurStage, "pass")
                     /\ Advance
                ELSE /\ out' = Append(out, CurStage.name)
                     /\ trace' = Logged(CurStage, "fail")
                     /\ Leave(CurStage.mech, 1)
    /\ UNCHANGED <<prog, argv, user_options, written>>
    /\ UNCHANGED <<wvars, svars>>

\* the file a writer writes: writer->SetFileName(m_OutputFile) in shift_epid
WrittenName(st) ==
    IF st.writes = "m_OutputFile" THEN user_options.output_file ELSE st.writes

\* a call that may throw: it returns, or its own handler prints and leaves,
\* or the exception goes on to the handlers of main(), if there are any
RunCall ==
    /\ mpc = "run"
    /\ CurStage.k = "call"
    /\ CurStage.when = {} \/ user_options.channel \in CurStage.when
    /\ LET f == FileOf(CurStage.file) IN
       \E fs \in (IF CurStage.file = "" THEN {"ok"} ELSE Found(f)) :
          /\ fstate' = IF CurStage.file = "" THEN fstate
                       ELSE [fstate EXCEPT ![f] = fs]
          /\ opened' = IF CurStage.file = "" THEN opened ELSE opened \cup {f}
          /\ \E res \in (IF fs = "ok" THEN {"ok"} ELSE {}) \cup CurStage.throws :
                CASE res = "ok" ->
                        /\ out' = out
                        /\ written' = IF CurStage.writes = "" THEN written
                                      ELSE written \cup {WrittenName(CurStage)}
                        /\ trace' = Logged(CurStage, "ok")
                        /\ Advance
                  [] res # "ok" /\ res = CurStage.guard ->
                        /\ out' = Append(out, CurStage.name)
                        /\ written' = written
                        /\ trace' = Logged(CurStage, "caught")
                        /\ Leave(CurStage.mech, 1)
                  [] OTHER ->
                        /\ out' = out
                        /\ written' = written
                        /\ trace' = Logged(CurStage, "threw")
                        /\ Propagate(res, CurStage.update)
    /\ UNCHANGED <<prog, argv, user_options>>
    /\ UNCHANGED <<wvars, svars>>

\* a writer of split_channels.cxx whose channel was not asked for
RunSkip ==
    /\ mpc = "run"
    /\ CurStage.k = "call"
    /\ CurStage.when # {}
    /\ user_options.channel \notin CurStage.when
    /\ trace' = Logged(CurStage, "skipped")
    /\ Advance
    /\ UNCHANGED <<prog, argv, user_options, out, fstate, opened, written>>
    /\ UNCHANGED <<wvars, svars>>

\* throw EXIT_SUCCESS or return EXIT_SUCCESS at the end of the main code
RunEnd ==
    /\ mpc = "run"
    /\ CurStage.k = "end"
    /\ trace' = Logged(CurStage, "end")
    /\ Leave(CurStage.mech, 0)
    /\ UNCHANGED <<prog, argv, user_options, out, fstate, opened, written>>
    /\ UNCHANGED <<wvars, svars>>

\* catch (int result) { return result; }
CatchInt ==
    /\ mpc = "catch_int"
    /\ mpc' = "exited"
    /\ exitCode' = thrown.v
    /\ UNCHANGED <<prog, argv, user_options, idx, thrown, out, fstate, opened,
                   written, trace>>
    /\ UNCHANGED <<wvars, svars>>

\* catch (...): the exception is rethrown inside a try that catches
\* std::exception, which prints; then return EXIT_FAILURE.  Anything else
\* leaves the handler, and main, by the rethrow.
CatchAll ==
    /\ mpc = "catch_all"
    /\ IF thrown.t \in {"itk", "runtime", "std"}
       THEN /\ out' = Append(out, "Unhandled exception")
            /\ mpc' = "exited"
            /\ exitCode' = 1
       ELSE /\ out' = out
            /\ mpc' = "terminate"
            /\ exitCode' = exitCode
    /\ UNCHANGED <<prog, argv, user_options, idx, thrown, fstate, opened,
                   written, trace>>
    /\ UNCHANGED <<wvars, svars>>

\* an exception left main(): std::terminate calls abort, and the process is
\* killed by SIGABRT without an exit status
Terminate ==
    /\ mpc = "terminate"
    /\ mpc' = "aborted"
    /\ UNCHANGED <<prog, argv, user_options, idx, thrown, exitCode, out, fstate,
                   opened, written, trace>>
    /\ UNCHANGED <<wvars, svars>>

MainNext ==
    \/ MainParse
    \/ RunSwitch
    \/ RunCond
    \/ RunFs
    \/ RunOut
    \/ RunSet
    \/ RunTk
    \/ RunCall
    \/ RunSkip
    \/ RunEnd
    \/ CatchInt
    \/ CatchAll
    \/ Terminate

SpecMain == MainInit /\ [][MainNext]_vars

-----------------------------------------------------------------------------
(***************************************************************************)
(* main(): properties.                                                     *)
(***************************************************************************)

Terminated == mpc \in {"exited", "aborted"}

\* texts that are not diagnostics
Texts == {"help", "usage", "version"}

Diagnosed == \E j \in 1..Len(out) : out[j] \notin Texts

\* a validation failed or a call threw
Failed ==
    \E j \in 1..Len(trace) :
        \/ trace[j].res \in {"fail", "caught", "threw"}
        \/ trace[j].res = "taken" /\ trace[j].name = "unsupported"

\* C4: a run in which a validation failed or an exception was thrown goes no
\* further, prints a diagnostic and ends with a nonzero exit code.
C4_FailuresReported ==
    /\ \A j \in 1..Len(trace) :
          trace[j].res \in {"fail", "caught", "threw"} => j = Len(trace)
    /\ Terminated /\ Failed =>
          mpc = "exited" /\ exitCode # 0 /\ exitCode # -1 /\ Diagnosed

\* C5: a process that has ended has exit status 0 or 1.
C5_ExitZeroOrOne == Terminated => mpc = "exited" /\ exitCode \in {0, 1}

\* C7: every Update() stands in a try that catches itk::ExceptionObject, and
\* no exception thrown by an Update() leaves main.
C7_UpdateGuarded ==
    /\ mpc = "run" /\ CurStage.k = "call" /\ CurStage.update =>
          CurStage.guard = "itk"
    /\ ~(mpc \in {"terminate", "aborted"} /\ thrown.update)

FiveChecks == <<"given", "exists", "regular", "nonempty", "open">>

\* programs that make all five checks of each input file
FullyChecked ==
    {"app", "image_affine_transform", "image_registration", "rgb_to_luminance",
     "split_channels_cpp", "split_channels_cxx"}

\* the checks a program makes of an input file before the toolkit opens it
RequiredChecks(p) ==
    IF p \in FullyChecked THEN FiveChecks
    ELSE IF p = "shift_epid" THEN SubSeq(FiveChecks, 1, 4)
    ELSE SubSeq(FiveChecks, 1, 1)

IsCheck(e, fl) ==
    /\ e.file = fl
    /\ e.k = "fs" \/ (e.k = "cond" /\ e.name = "given")

\* the checks of file fl among the first n executed stages
ChecksDone(fl, n) == SelectSeq(SubSeq(trace, 1, n), LAMBDA e : IsCheck(e, fl))

CheckNames(fl, n) ==
    [j \in 1..Len(ChecksDone(fl, n)) |-> ChecksDone(fl, n)[j].name]

\* the checks of a file are made in the order of req; the toolkit touches the
\* file only after all of req have passed; a failed check prints, fails the
\* run, and is the last stage executed
ChecksGuard(req) ==
    /\ \A fl \in {"in", "mov"} :
          /\ Len(CheckNames(fl, Len(trace))) <= Len(req)
          /\ CheckNames(fl, Len(trace)) =
                SubSeq(req, 1, Len(CheckNames(fl, Len(trace))))
          /\ \A j \in 1..Len(trace) :
                trace[j].file = fl /\ trace[j].k \in {"tk", "call"} =>
                   /\ CheckNames(fl, j - 1) = req
                   /\ \A c \in 1..Len(req) : ChecksDone(fl, j - 1)[c].res = "pass"
    /\ \A j \in 1..Len(trace) :
          IsCheck(trace[j], trace[j].file) /\ trace[j].res = "fail" =>
             /\ j = Len(trace)
             /\ out # <<>> /\ out[Len(out)] = trace[j].name
             /\ Terminated => mpc = "exited" /\ exitCode = 1

\* C6 as stated: every program makes the five checks, in order, before a
\* toolkit object opens the file, and the first failed check ends the run.
C6_AllFiveChecks == mpc # "start" => ChecksGuard(FiveChecks)

\* C6 amended: app, image_affine_transform, image_registration,
\* rgb_to_luminance and both split_channels make the five checks; shift_epid
\* makes the first four; shifts_calculator and step_wedge_denoise only test
\* that an argument was given.
C6_ChecksBeforeToolkit == mpc # "start" => ChecksGuard(RequiredChecks(prog))

\* C6 witness: image_registration has opened its second image, after the
\* five checks of each image passed.
C6_MovingOpened ==
    /\ prog = "image_registration"
    /\ user_options.moving_image \in opened
    /\ CheckNames("in", Len(trace)) = FiveChecks
    /\ CheckNames("mov", Len(trace)) = FiveChecks

\* the command line is one of --help, --usage, --version and nothing else
OneSwitch ==
    /\ Len(argv) = 1
    /\ argv[1].flag \in {"--help", "--usage", "--version"}

TextOf(flag) ==
    CASE flag = "--help" -> "help"
      [] flag = "--usage" -> "usage"
      [] flag = "--version" -> "version"

\* the run prints the text of its switch and nothing else, ends with exit
\* status 0, and no file is opened by the toolkit or written
SwitchServed ==
    /\ opened = {}
    /\ written = {}
    /\ mpc \notin {"terminate", "aborted"}
    /\ \A j \in 1..Len(out) : out[j] = TextOf(argv[1].flag)
    /\ mpc = "exited" => exitCode = 0 /\ out = <<TextOf(argv[1].flag)>>

\* C10 as stated: every program of the repository serves the three switches.
C10_EveryProgram == OneSwitch => SwitchServed

\* C10 amended: the eleven programs that parse their command line with clipp
\* serve the three switches; shifts_calculator and step_wedge_denoise take
\* the switch for the name of their input file.
C10_ScaffoldPrograms ==
    /\ prog \in ScaffoldProgs /\ OneSwitch => SwitchServed
    /\ prog \in {"shifts_calculator", "step_wedge_denoise"} /\ OneSwitch
          /\ mpc # "start" =>
             /\ user_options.input_file = argv[1].flag
             /\ \A j \in 1..Len(out) : out[j] \notin Texts

\* C10 witness: a scaffold program given only --usage has exited.
C10_UsageServed ==
    /\ prog = "image_registration"
    /\ OneSwitch
    /\ argv[1].flag = "--usage"
    /\ mpc = "exited"
    /\ out = <<"usage">>

-----------------------------------------------------------------------------
(***************************************************************************)
(* stat_demo: the frequency table.                                         *)
(***************************************************************************)

\* number of draws of the population loop (10000 in the program)
NumDraws == 4

\* the rounded samples lie in -MaxSample..MaxSample
MaxSample == 1

Samples == (0 - MaxSample)..MaxSample

\* the factor of round(pval * 1000)
PerMille == 1000

RECURSIVE SumOver(_, _)
\* the sum of the values of t over the keys ks
SumOver(t, ks) ==
    IF ks = {} THEN 0
    ELSE LET k == CHOOSE x \in ks : TRUE
         IN  t[k] + SumOver(t, ks \ {k})

\* a mutation of the increment: a sample counts twice
IncrementMut(t, v) ==
    [k \in DOMAIN t \cup {v} |->
        IF k = v THEN (IF v \in DOMAIN t THEN t[v] ELSE 0) + 2 ELSE t[k]]

\* ++table[v]: operator[] inserts the key with value 0 if it is missing
Increment(t, v) ==
    [k \in DOMAIN t \cup {v} |->
        IF k = v THEN (IF v \in DOMAIN t THEN t[v] ELSE 0) + 1 ELSE t[k]]

\* round((float) occurence / (float) total_occurences * 1000); for the totals
\* that occur here the float quotient and product are exact or far from a
\* half, so the result is the rational rounded half up
RoundPerMille(occurence, total) ==
    (2 * PerMille * occurence + total) \div (2 * total)

\* the key at which an iteration over the remaining keys of a std::map stands
FirstKey(ks) == CHOOSE k \in ks : \A x \in ks : k <= x

StatInit ==
    /\ WedgeIdle
    /\ MainIdle
    /\ spc = "populate"
    /\ table = <<>>
    /\ draws = 0
    /\ drawn = <<>>
    /\ total_occurences = 0
    /\ counts = <<>>
    /\ pending = {}

\* one pass of the population loop: ++table[random_int()]
StatDraw ==
    /\ spc = "populate"
    /\ draws < NumDraws
    /\ \E v \in Samples :
          /\ table' = Increment(table, v)
          /\ drawn' = Append(drawn, v)
    /\ draws' = draws + 1
    /\ UNCHANGED <<spc, total_occurences, counts, pending>>
    /\ UNCHANGED <<wvars, mvars>>

\* the population loop ends; total_occurences is summed over the table
StatTotal ==
    /\ spc = "populate"
    /\ draws = NumDraws
    /\ counts' = table
    /\ total_occurences' = SumOver(table, DOMAIN table)
    /\ pending' = DOMAIN table
    /\ spc' = "normalise"
    /\ UNCHANGED <<table, draws, drawn>>
    /\ UNCHANGED <<wvars, mvars>>

\* one pass of the loop of the mean value: table[value] = round(pval * 1000)
StatNormalise ==
    /\ spc = "normalise"
    /\ pending # {}
    /\ LET value == FirstKey(pending) IN
          /\ table' = [table EXCEPT
                          ![value] = RoundPerMille(table[value], total_occurences)]
          /\ pending' = pending \ {value}
    /\ UNCHANGED <<spc, draws, drawn, total_occurences, counts>>
    /\ UNCHANGED <<wvars, mvars>>

\* variance, mode, the second sum of total_occurences and the median: loops
\* that read the table
StatStatistics ==
    /\ spc = "normalise"
    /\ pending = {}
    /\ total_occurences' = SumOver(table, DOMAIN table)
    /\ spc' = "print"
    /\ UNCHANGED <<table, draws, drawn, counts, pending>>
    /\ UNCHANGED <<wvars, mvars>>

\* the statistics and the bar chart are printed; throw EXIT_SUCCESS
StatPrint ==
    /\ spc = "print"
    /\ spc' = "done"
    /\ UNCHANGED <<table, draws, drawn, total_occurences, counts, pending>>
    /\ UNCHANGED <<wvars, mvars>>

StatNext ==
    \/ StatDraw
    \/ StatTotal
    \/ StatNormalise
    \/ StatStatistics
    \/ StatPrint

SpecStat == StatInit /\ [][StatNext]_vars

\* the number of draws that gave the sample v
DrawsOf(v) == Cardinality({j \in 1..Len(drawn) : drawn[j] = v})

DrawnKeys == {drawn[j] : j \in 1..Len(drawn)}

\* when the population loop has ended, the table it left has the drawn
\* samples as keys and their numbers of draws as values
CountsRight ==
    /\ DOMAIN counts = DrawnKeys
    /\ \A k \in DOMAIN counts : counts[k] = DrawsOf(k)
    /\ SumOver(counts, DOMAIN counts) = NumDraws

\* C9 as stated: once the population loop has ended the table holds the
\* numbers of draws, which sum to the number of draws, and stays as it is.
C9_TableFrozen ==
    spc \in {"normalise", "print", "done"} => CountsRight /\ table = counts

\* C9 amended: the population loop leaves the numbers of draws; the loop of
\* the mean value then replaces each value, once, by its share of the draws
\* in per mille; the keys stay, and after that loop nothing changes.
C9_TableNormalised ==
    spc \in {"normalise", "print", "done"} =>
       /\ CountsRight
       /\ DOMAIN table = DOMAIN counts
       /\ \A k \in DOMAIN table :
             table[k] = IF spc = "normalise" /\ k \in pending THEN counts[k]
                        ELSE (2 * 1000 * counts[k] + NumDraws) \div (2 * NumDraws)

\* C9 witness: the run is over and the table no longer holds the counts.
C9_Normalised == spc = "done" /\ table # counts /\ Cardinality(DOMAIN table) > 1

-----------------------------------------------------------------------------
(***************************************************************************)
(* shift_epid: the shift limits.                                           *)
(***************************************************************************)

\* the stage of the given name has been executed
Ran(n) == \E j \in 1..Len(trace) : trace[j].name = n

\* the run ended at stage n with the message of n and exit status 1
RejectedAt(n) ==
    /\ trace # <<>>
    /\ trace[Len(trace)].name = n
    /\ trace[Len(trace)].res = "fail"
    /\ out # <<>> /\ out[Len(out)] = n
    /\ Terminated => mpc = "exited" /\ exitCode = 1

\* C11: shift_epid reads the image or writes output only when both shifts
\* lie strictly between -200.0 and +200.0; with any other shift the run ends
\* at the shift test with the out-of-limits message and failure.
C11_StrictShiftLimits ==
    prog = "shift_epid" =>
       /\ Ran("reader->Update") \/ written # {} =>
             /\ Abs(user_options.x_shift) < 2000
             /\ Abs(user_options.y_shift) < 2000
       /\ Ran("x shift out of limits") /\ Abs(user_options.x_shift) >= 2000 =>
             RejectedAt("x shift out of limits")
       /\ Ran("y shift out of limits") /\ Abs(user_options.y_shift) >= 2000 =>
             RejectedAt("y shift out of limits")


(***************************************************************************)
(* Output files that exist already (rgb_to_luminance, split_channels.cxx,  *)
(* image_registration)                                                     *)
(***************************************************************************)

OverwritePrograms ==
    {"rgb_to_luminance", "split_channels_cxx", "image_registration"}

\* the checked output files of the request: the channel is compared in lower
\* case, as the tests of main() see it
RequestedOutputs ==
    CASE prog = "rgb_to_luminance" -> {"_luminance"}
      [] prog = "image_registration" -> {"_registered"}
      [] prog = "split_channels_cxx" ->
            LET ch == StrToLower(user_options.channel) IN
            (IF ch \in {"r", "red", "all"} THEN {"_R"} ELSE {})
               \cup (IF ch \in {"g", "green", "all"} THEN {"_G"} ELSE {})
               \cup (IF ch \in {"b", "blue", "all"} THEN {"_B"} ELSE {})
      [] OTHER -> {}

\* the run found the file f present
FoundPresent(f) == fstate[f] \in {"dir", "empty", "unreadable", "ok"}

\* C12: without --overwrite, a requested output file that is found present
\* ends the run at its existence test with the message and exit status 1 and
\* with no file written, and a file is written only after every requested
\* output file was found absent; with --overwrite no existence test fails.
C12_NoOverwriteAllOrNothing ==
    prog \in OverwritePrograms /\ mpc \notin {"idle", "start"} =>
       /\ ~user_options.overwrite
             /\ (\E f \in RequestedOutputs : FoundPresent(f)) =>
                /\ written = {}
                /\ RejectedAt("output exists")
       /\ ~user_options.overwrite /\ written # {} =>
             \A f \in RequestedOutputs : fstate[f] = "missing"
       /\ user_options.overwrite =>
             \A j \in 1..Len(trace) :
                 trace[j].k = "out" => trace[j].res = "skipped"

\* C12 witness: split_channels asked for all channels without --overwrite
\* found the red file absent and the green file present, and has ended with
\* exit status 1 and nothing written.
C12_SecondFileStops ==
    /\ prog = "split_channels_cxx"
    /\ ~user_options.overwrite
    /\ user_options.channel = "all"
    /\ fstate["_R"] = "missing"
    /\ fstate["_G"] = "ok"
    /\ mpc = "exited"
    /\ exitCode = 1
    /\ written = {}


(***************************************************************************)
(* The channel of split_channels.cxx                                       *)
(***************************************************************************)

\* the value of --channel on the command line, "all" if there is none
GivenChannel ==
    IF \E j \in 1..Len(argv) : argv[j].flag = "-c"
    THEN (CHOOSE t \in {argv[j] : j \in 1..Len(argv)} : t.flag = "-c").val
    ELSE "all"

\* the values given that spell, in some case, one of the seven channel names
ChannelSpellings == {"R", "Green", "BLUE", "all"}

\* the run reached the end of the main code and left with success
Succeeded ==
    /\ mpc = "exited"
    /\ exitCode = 0
    /\ trace # <<>>
    /\ trace[Len(trace)].k = "end"

\* C13: split_channels.cxx takes a channel that spells r, red, g, green, b,
\* blue or all in any case and fails at the channel test with any other
\* value; no file of a channel not selected is written, and a successful run
\* has written exactly the files of the selected channels.
C13_ChannelSelectsFiles ==
    prog = "split_channels_cxx" =>
       /\ \A j \in 1..Len(trace) :
             trace[j].name = "channel" =>
                /\ trace[j].res = "pass" <=> GivenChannel \in ChannelSpellings
                /\ trace[j].res = "pass" => user_options.channel \in Channels
                /\ trace[j].res # "pass" => RejectedAt("channel")
       /\ written \subseteq RequestedOutputs
       /\ Succeeded => written = RequestedOutputs

\* C13 witness: the run with --channel Green has ended with success and has
\* written the green file only.
C13_GreenOnly ==
    /\ prog = "split_channels_cxx"
    /\ GivenChannel = "Green"
    /\ Succeeded
    /\ written = {"_G"}


(***************************************************************************)
(* The size of the image of create_image_from_buffer                       *)
(***************************************************************************)

\* C14: create_image_from_buffer calls createBufferImage only with a width
\* and a height of 10 or more, so that width - 1 is not zero; a run with a
\* smaller width or height ends at the size test with the message and exit
\* status 1, before the buffer is made and with no file written.
C14_SizeAtLeastTen ==
    prog = "create_image_from_buffer" =>
       /\ Ran("createBufferImage") =>
             /\ user_options.width >= 10
             /\ user_options.height >= 10
             /\ user_options.width - 1 # 0
       /\ /\ Ran("width or height below 10")
          /\ user_options.width < 10 \/ user_options.height < 10
          => /\ RejectedAt("width or height below 10")
             /\ ~Ran("createBufferImage")
             /\ written = {}

\* C14 witness: the run with a width of 1 has ended at the size test with
\* exit status 1 and nothing written.
C14_WidthOneRejected ==
    /\ prog = "create_image_from_buffer"
    /\ user_options.width = 1
    /\ RejectedAt("width or height below 10")
    /\ mpc = "exited"
    /\ exitCode = 1
    /\ written = {}


(***************************************************************************)
(* The output file of shift_epid                                           *)
(***************************************************************************)

\* the value of --output-file on the command line, "" if there is none
GivenOutput ==
    IF \E j \in 1..Len(argv) : argv[j].flag = "-o"
    THEN (CHOOSE t \in {argv[j] : j \in 1..Len(argv)} : t.flag = "-o").val
    ELSE ""

\* C15: once shift_epid has chosen the name of its output file, that name is
\* the value of --output-file if one was given, and else the path of the
\* input file with _shifted between its base name and its extension, in the
\* directory of the input file; the file written is the file of that name.
C15_OutputNextToInput ==
    prog = "shift_epid" /\ Ran("output file name") =>
       /\ user_options.output_file =
             IF GivenOutput # "" THEN GivenOutput
             ELSE (IF ParentPath(user_options.input_file) = "" THEN ""
                   ELSE ParentPath(user_options.input_file) \o "/")
                     \o Stem(user_options.input_file) \o "_shifted"
                     \o Extension(user_options.input_file)
       /\ written \subseteq {user_options.output_file}


(***************************************************************************)
(* The order of the switches                                               *)
(***************************************************************************)

\* the switch of highest priority among those set, "" if none is set
FirstSwitch ==
    IF user_options.show_help THEN "help"
    ELSE IF user_options.print_usage THEN "usage"
    ELSE IF user_options.show_version THEN "version"
    ELSE ""

\* number of the switches set
SwitchesSet ==
    (IF user_options.show_help THEN 1 ELSE 0)
       + (IF user_options.print_usage THEN 1 ELSE 0)
       + (IF user_options.show_version THEN 1 ELSE 0)

C17_UnsupportedFirst ==
    /\ prog \in ScaffoldProgs
    /\ mpc \notin {"idle", "start"}
    /\ user_options.unsupported
    => /\ Len(trace) <= 1
       /\ trace # <<>> =>
             /\ trace[1].name = "unsupported"
             /\ trace[1].res = "taken"
             /\ out = <<"unsupported">>
       /\ trace = <<>> => out = <<>>
       /\ \A f \in FileNames : fstate[f] = "unknown"
       /\ opened = {} /\ written = {}
       /\ Terminated => mpc = "exited" /\ exitCode = 1 /\ trace # <<>>

\* C17 witness: a run given an unsupported argument together with the help
\* switch has ended with the list of unsupported options and exit status 1.
C17_BogusBeatsHelp ==
    /\ prog \in ScaffoldProgs
    /\ user_options.unsupported
    /\ user_options.show_help
    /\ mpc = "exited"
    /\ exitCode = 1
    /\ out = <<"unsupported">>


(***************************************************************************)
(* The single exit of the try block                                        *)
(***************************************************************************)

\* the run left the main code by a throw that a handler of main() took
ThroughHandler ==
    /\ thrown # NoThrow
    /\ thrown.t # "noexcept"

\* C18: in a program whose main code stands in the try block, a process that
\* has ended left the main code by a throw taken by catch (int) or by the
\* catch-all, never by a return inside the try block.
C18_SingleExitPoint ==
    prog \in TryProgs /\ Terminated => ThroughHandler


(***************************************************************************)
(* create_step_wedge(): the bands of the returned image                    *)
(***************************************************************************)

\* the rectangles painted, in the order of painting, that hold pixel (x, y)
Covering(x, y) ==
    {j \in 1..Len(image.rects) :
        /\ image.rects[j].origin[1] <= x
        /\ x < image.rects[j].origin[1] + image.rects[j].size[1]
        /\ image.rects[j].origin[2] <= y
        /\ y < image.rects[j].origin[2] + image.rects[j].size[2]}

\* what pixel (x, y) shows: the step of the last SetPixel on it, or -1 where
\* the white of FillBuffer is left
VisibleStep(x, y) ==
    LET cov == Covering(x, y) IN
    IF cov = {} THEN -1
    ELSE image.rects[CHOOSE j \in cov : \A m \in cov : m <= j].step

\* the lower end (exclusive) of the band of step k, in rows below the origin
BandEnd(k) ==
    IF k = 20 THEN RoundMul(5, 1, dpi) ELSE RoundMul(59 + 20 * k, 100, dpi)

\* the step the layout puts in row y, -1 outside the wedge
LayoutStep(y) ==
    LET r == y - stepWedgeOrigin[2] IN
    IF r < 0 \/ r >= BandEnd(20) THEN -1
    ELSE CHOOSE k \in 0..20 :
            /\ r < BandEnd(k)
            /\ k > 0 => r >= BandEnd(k - 1)

\* columns that stand for all: the image edges and the wedge edges
SampleColumns ==
    {0, stepWedgeOrigin[1] - 1, stepWedgeOrigin[1],
     stepWedgeOrigin[1] + stepWedgeSize[1] - 1,
     stepWedgeOrigin[1] + stepWedgeSize[1], NumCols - 1}

\* C19: at 400 dpi the returned image is white outside the wedge rectangle,
\* and inside it row by row shows step 0 in the first round(0.59*dpi) rows,
\* step k = 1..19 in the rows up to round((0.59+0.2k)*dpi), each band
\* round(0.2*dpi) rows high, and step 20 in the rest up to round(5.00*dpi);
\* every band has rows and lies in the image.
C19_BandLayout ==
    wpc = "done" /\ dpi = 400 =>
       /\ image.fill = <<White, White, White>>
       /\ \A j \in 1..Len(image.rects) :
             /\ image.rects[j].origin = stepWedgeOrigin
             /\ image.rects[j].size[1] = stepWedgeSize[1]
       /\ \A y \in 0..(NumRows - 1) :
             \A x \in SampleColumns :
                VisibleStep(x, y) =
                   IF /\ stepWedgeOrigin[1] <= x
                      /\ x < stepWedgeOrigin[1] + stepWedgeSize[1]
                   THEN LayoutStep(y) ELSE -1
       /\ stepWedgeOrigin[2] + BandEnd(20) <= NumRows
       /\ BandEnd(0) > 0
       /\ BandEnd(20) > BandEnd(19)
       /\ \A k \in 1..19 : BandEnd(k) - BandEnd(k - 1) = RoundMul(2, 10, dpi)

\* C19 witness: the image returned at 400 dpi shows step 0 in the first row
\* of the wedge, step 1 in row 236 of it and step 20 in its last row.
C19_WedgeAt400 ==
    /\ wpc = "done"
    /\ dpi = 400
    /\ Len(image.rects) = 21
    /\ VisibleStep(stepWedgeOrigin[1], stepWedgeOrigin[2]) = 0
    /\ VisibleStep(stepWedgeOrigin[1], stepWedgeOrigin[2] + 236) = 1
    /\ VisibleStep(stepWedgeOrigin[1], stepWedgeOrigin[2] + 1999) = 20


(***************************************************************************)
(* create_step_wedge(): the allocated region                               *)
(***************************************************************************)

\* C20: the image allocated is round(0.9*dpi) columns by round(5.4*dpi) rows,
\* and every rectangle of pixels handed to SetPixel lies inside it.
C20_PixelsInRegion ==
    image.allocated =>
       /\ NumCols = RoundMul(9, 10, dpi)
       /\ NumRows = RoundMul(54, 10, dpi)
       /\ \A j \in 1..Len(image.rects) :
             InRegion(image.rects[j].origin, image.rects[j].size,
                      NumCols, NumRows)


(***************************************************************************)
(* The tests of the TIFF header before the pipeline                        *)
(***************************************************************************)

TiffPrograms ==
    {"rgb_to_luminance", "split_channels_cxx", "step_wedge_denoise",
     "image_registration"}

\* the images a program tests
TiffImages(p) == IF p = "image_registration" THEN {"in", "mov"} ELSE {"in"}

\* the four tests of image f, by the names of their stages, in the order
\* readable TIFF, not compressed, 3 samples per pixel, 16 bits per sample
TiffChecks(p, f) ==
    IF p = "image_registration"
    THEN IF f = "in"
         THEN <<"CanReadFile", "fixed compressed", "fixed not RGB",
                "fixed not 16 bit">>
         ELSE <<"CanReadFile", "moving compressed", "moving not RGB",
                "moving not 16 bit">>
    ELSE <<"CanReadFile", "compressed", "not RGB", "not 16 bit">>

\* entry j of the trace is test c of image f
IsTiffCheck(j, f, c) ==
    /\ trace[j].name = TiffChecks(prog, f)[c]
    /\ trace[j].k \in {"tk", "cond"}
    /\ trace[j].k = "tk" => trace[j].file = f

\* test c of image f was made and passed, before entry j
TiffPassedBefore(j, f, c) ==
    \E m \in 1..(j - 1) : IsTiffCheck(m, f, c) /\ trace[m].res = "pass"

\* entry j is a step of the reader/filter/writer pipeline
IsPipeline(j) ==
    trace[j].k = "call" /\ trace[j].name # "ReadImageInformation"

\* C21: in rgb_to_luminance, split_channels.cxx, step_wedge_denoise and
\* image_registration a step of the pipeline is made only after each image
\* passed the tests readable TIFF, not compressed, 3 samples per pixel and
\* 16 bits per sample; each test is made only after the one before it passed;
\* a test that fails is the last thing the run does: nothing is written
\* and the exit status is 1.
C21_TiffChecksBeforePipeline ==
    prog \in TiffPrograms =>
       /\ \A j \in 1..Len(trace) :
             IsPipeline(j) =>
                \A f \in TiffImages(prog) :
                   \A c \in 1..4 : TiffPassedBefore(j, f, c)
       /\ written # {} =>
             \A f \in TiffImages(prog) :
                \A c \in 1..4 : TiffPassedBefore(Len(trace) + 1, f, c)
       /\ \A j \in 1..Len(trace) :
             \A f \in TiffImages(prog) :
                \A c \in 2..4 :
                   IsTiffCheck(j, f, c) => TiffPassedBefore(j, f, c - 1)
       /\ \A j \in 1..Len(trace) :
             \A f \in TiffImages(prog) :
                \A c \in 1..4 :
                   IsTiffCheck(j, f, c) /\ trace[j].res # "pass" =>
                      /\ trace[j].res = "fail"
                      /\ j = Len(trace)
                      /\ written = {}
                      /\ Terminated => mpc = "exited" /\ exitCode = 1

\* C21 witness: image_registration found the fixed image good in all four
\* tests and the moving image without 3 samples per pixel, and has ended
\* with exit status 1 and nothing written.
C21_MovingNotRgb ==
    /\ prog = "image_registration"
    /\ \A c \in 1..4 : TiffPassedBefore(Len(trace) + 1, "in", c)
    /\ trace # <<>>
    /\ IsTiffCheck(Len(trace), "mov", 3)
    /\ trace[Len(trace)].res = "fail"
    /\ mpc = "exited"
    /\ exitCode = 1
    /\ written = {}

=============================================================================
